---- MODULE Spec2Model ----
(***************************************************************************)
(* Model of ultimate_notion.session.Session (cached accessors, status      *)
(* check) and ultimate_notion.utils.Wrapper (wrap registry).               *)
(*                                                                         *)
(* Objects are records carrying a unique id: two references are identical  *)
(* exactly when their ids are equal.  Python values used as call arguments *)
(* are tagged pairs <<type, text>>, so that a UUID never equals a str.     *)
(***************************************************************************)
EXTENDS Integers, Sequences, FiniteSets, TLC

\* ---------------------------------------------------------------- bounds
MaxCalls == 3          \* calls recorded per behaviour
MaxTicks == 2          \* clock advances per behaviour
MaxSearchCalls == 2    \* calls per behaviour when every call form of search_db is tried
MaxWrapOps == 4        \* registry operations per behaviour
MaxLog == 5            \* longest call log of any behaviour

\* ------------------------------------------------------ program constants
DefaultTtl == 30       \* set_cache(ttl=30, ...)
DefaultMaxsize == 1024 \* set_cache(..., maxsize=1024)

\* ----------------------------------------------------------- input sets
Ids == {"X", "Y"}                      \* identifiers of remote objects
TickSteps == {1, 29}                   \* seconds the clock may advance at once
TtlChoices == {2}                      \* ttl arguments tried for set_cache
SizeChoices == {1}                     \* maxsize arguments tried for set_cache
RetrieveOutcomes == {"ok", "APIResponseError"}
RawKinds == {"objs.Database", "objs.Page", "objs.User"}   \* kinds of raw objects
WrapperKinds == {"Database", "Page", "View"}              \* Wrapper subclasses
RawIds == {1, 2}                       \* identities of the raw objects handed to wrap_obj_ref
MeOutcomes == {"ok", "None", "ConnectError", "APIResponseError", "TimeoutException"}

VARIABLES
    now,          \* value of the cache timer (time.monotonic), whole seconds
    nticks,       \* clock advances so far
    cache,        \* the TTLCache shared by the wrapped accessors, in LRU order
    ttl,          \* ttl of the current TTLCache
    maxsize,      \* maxsize of the current TTLCache
    nextObj,      \* id the next created object gets
    log,          \* the calls made on the session, oldest first
    _obj_api_map, \* Wrapper._obj_api_map: raw kind -> wrapper kind
    wrapped,      \* wrapper instances created by wrap_obj_ref
    wlog,         \* outcome of the registry operations, oldest first
    ctor,         \* the Session(...) call: its auth argument, the environment, its outcome
    notional,     \* Session.notional: the token it was built with, the state of its client
    scope,        \* the `with session:` block in progress, if any
    threads       \* the cached call each thread is in the middle of

vars == <<now, nticks, cache, ttl, maxsize, nextObj, log, _obj_api_map, wrapped, wlog,
          ctor, notional, scope, threads>>
sessionVars == <<now, nticks, cache, ttl, maxsize, nextObj, log>>
wrapVars == <<_obj_api_map, wrapped, wlog>>
lifeVars == <<ctor, notional, scope, threads>>

\* ------------------------------------------------------- Python values
NoObj == [id |-> 0, kind |-> "none", ref |-> "", items |-> {}]
PyUuid(i) == <<"uuid", i>>
PyStr(s) == <<"str", s>>
PyNone == <<"none", "">>

\* make_obj_ref(ref).id: a str and a UUID reference both resolve to the UUID
make_obj_ref(ref) == PyUuid(ref[2])

\* cachetools.keys.hashkey(*args, **kwargs): positional arguments followed by
\* the keyword arguments sorted by name.  The bound method's self and the
\* function it belongs to are not part of the key.
hashkey(args, kwargs) == [args |-> args, kwargs |-> kwargs]

\* hash(key) raises TypeError when an argument is a list
Hashable(k) ==
    /\ \A i \in 1..Len(k.args) : k.args[i][1] # "list"
    /\ \A i \in 1..Len(k.kwargs) : k.kwargs[i][2][1] # "list"

\* ---------------------------------------------------- cachetools.TTLCache
\* TTLCache.expire(time): drop every entry with not (time < expires)
Expire(c, t) == SelectSeq(c, LAMBDA e : t < e.expires)

KeyIndex(c, k) ==
    IF \E i \in 1..Len(c) : c[i].key = k
    THEN CHOOSE i \in 1..Len(c) : c[i].key = k
    ELSE 0

RemoveAt(c, i) == SubSeq(c, 1, i - 1) \o SubSeq(c, i + 1, Len(c))

\* faulty variant of Touch: a lookup leaves the order as it is
TouchKeepsOrder(c, k) == c

\* TTLCache.__getlink: the looked-up key becomes the most recently used
Touch(c, k) ==
    LET i == KeyIndex(c, k)
    IN  IF i = 0 THEN c ELSE RemoveAt(c, i) \o <<c[i]>>

\* faulty variant of Hit: the expiry time is not consulted
HitStale(c, k, t) == KeyIndex(c, k) # 0

\* TTLCache.__getitem__ finds the key only while timer() < expires
Hit(c, k, t) == KeyIndex(c, k) # 0 /\ t < c[KeyIndex(c, k)].expires

RECURSIVE PopUntilFits(_, _)
\* Cache.__setitem__: while currsize + 1 > maxsize: popitem() (least recently used)
PopUntilFits(c, size) ==
    IF Len(c) + 1 > size /\ Len(c) > 0 THEN PopUntilFits(Tail(c), size) ELSE c

\* TTLCache.__setitem__ as called by cachetools.cached; a value larger than
\* maxsize raises ValueError, which cached() swallows
CacheSet(c, k, v, t, life, size) ==
    LET live == Expire(c, t)
        i == KeyIndex(live, k)
        rest == IF i = 0 THEN live ELSE RemoveAt(live, i)
        entry == [key |-> k, val |-> v, expires |-> t + life]
    IN  IF 1 > size THEN live
        ELSE IF i # 0 THEN rest \o <<entry>>
        ELSE PopUntilFits(live, size) \o <<entry>>

\* faulty variant of Cached: a failure of the wrapped function is stored too
CachedWithFailures(c, k, f, t, life, size) ==
    IF ~Hashable(k)
    THEN [cache |-> c, val |-> NoObj, calls |-> 0, out |-> "", err |-> "TypeError"]
    ELSE IF HitStale(c, k, t) /\ t < c[KeyIndex(c, k)].expires
    THEN [cache |-> Touch(c, k), val |-> c[KeyIndex(c, k)].val, calls |-> 0,
          out |-> "", err |-> IF c[KeyIndex(c, k)].val = NoObj THEN "APIResponseError" ELSE ""]
    ELSE [cache |-> CacheSet(Touch(c, k), k, f.val, t, life, size), val |-> f.val,
          calls |-> f.calls, out |-> f.out, err |-> f.err]

\* cachetools.cached wrapper: look the key up, on a miss run the wrapped
\* function (f is what it does: its transport calls, the error it raises or
\* the value it returns) and store the value; an error is not stored
Cached(c, k, f, t, life, size) ==
    IF ~Hashable(k)
    THEN [cache |-> c, val |-> NoObj, calls |-> 0, out |-> "", err |-> "TypeError"]
    ELSE IF Hit(c, k, t)
    THEN [cache |-> Touch(c, k), val |-> c[KeyIndex(c, k)].val, calls |-> 0,
          out |-> "", err |-> ""]
    ELSE IF f.err # ""
    THEN [cache |-> Touch(c, k), val |-> NoObj, calls |-> f.calls, out |-> f.out,
          err |-> f.err]
    ELSE [cache |-> CacheSet(Touch(c, k), k, f.val, t, life, size), val |-> f.val,
          calls |-> f.calls, out |-> f.out, err |-> ""]

\* -------------------------------------------------------------- helpers
\* an object returned by the transport: a fresh snapshot on every call
RawObject(kind, ref) == [id |-> nextObj, kind |-> kind, ref |-> ref, items |-> {}]

\* what the transport answers when it would answer out: a client that was
\* closed (Session.close, Session.__exit__) refuses every request
TransportOut(out) == IF notional.client = "closed" THEN "RuntimeError" ELSE out

\* notional <endpoint>.retrieve(uuid) with transport outcome out
Retrieve(kind, uuid, out) ==
    LET o == TransportOut(out)
    IN  [calls |-> 1, out |-> o, err |-> IF o = "ok" THEN "" ELSE o,
         val |-> IF o = "ok" THEN RawObject(kind, uuid[2]) ELSE NoObj]

\* one record of the call log: r is the outcome of the call (transport calls
\* issued, the transport's outcome, the error raised, the raw object obtained),
\* ret the id of the object handed to the caller (0 when the call raised or
\* returned None); ttl and maxsize are the configuration the call ran under
Call(op, k, r, ret) ==
    [op |-> op, key |-> k, t |-> now, calls |-> r.calls, out |-> r.out,
     err |-> r.err, raw |-> r.val, ret |-> ret, ttl |-> ttl, maxsize |-> maxsize,
     use_cache |-> "omitted", ref |-> <<"", "">>, found |-> {}]

\* a call can be made on a session that was constructed
CanCall == Len(log) < MaxLog /\ ctor.pc = "done"

\* number of objects a successful call creates besides the wrapper
Made(r) == IF r.calls > 0 /\ r.err = "" THEN 1 ELSE 0

\* no `with` block is in progress
NoScope == [pc |-> "out", exc |-> "", raised |-> ""]

\* the threads sharing the session, and a thread that is in no call
Threads == {"T1", "T2"}
Idle == [pc |-> "idle", op |-> "", key |-> hashkey(<<>>, <<>>), val |-> NoObj, hit |-> FALSE]

\* ----------------------------------------------------------------- Init
Init ==
    /\ now = 0
    /\ nticks = 0
    /\ cache = <<>>
    /\ ttl = DefaultTtl
    /\ maxsize = DefaultMaxsize
    /\ nextObj = 1
    /\ log = <<>>
    /\ _obj_api_map = [k \in {} |-> ""]
    /\ wrapped = {}
    /\ wlog = <<>>
    /\ ctor = [auth |-> "tokA", env |-> "None", pc |-> "done", err |-> ""]
    /\ notional = [auth |-> "tokA", client |-> "ready"]
    /\ scope = NoScope
    /\ threads = [th \in Threads |-> Idle]

\* -------------------------------------------------------------- actions
\* the timer of the cache advances
Tick(d) ==
    /\ nticks < MaxTicks
    /\ now' = now + d
    /\ nticks' = nticks + 1
    /\ UNCHANGED <<cache, ttl, maxsize, nextObj, log, wrapVars, lifeVars>>

\* faulty variant of get_db: the block is retrieved from the transport
\* directly, not through the cached _get_db
get_db_uncached(db_ref, out) ==
    /\ CanCall
    /\ LET db_uuid == make_obj_ref(db_ref)
           r == Retrieve("database", db_uuid, out)
       IN  /\ log' = Append(log, [Call("get_db", hashkey(<<db_uuid>>, <<>>), r,
                                       IF r.err = "" THEN nextObj + 1 ELSE 0)
                                  EXCEPT !.ref = db_ref])
           /\ nextObj' = nextObj + (IF r.err = "" THEN 2 ELSE 0)
    /\ UNCHANGED <<now, nticks, cache, ttl, maxsize, wrapVars, lifeVars>>

\* faulty variant of get_db: the cached _get_db is handed the reference as
\* the caller wrote it
get_db_by_ref(db_ref, out) ==
    /\ CanCall
    /\ LET db_uuid == make_obj_ref(db_ref)
           k == hashkey(<<db_ref>>, <<>>)
           r == Cached(cache, k, Retrieve("database", db_uuid, out), now, ttl, maxsize)
       IN  /\ cache' = r.cache
           /\ log' = Append(log, [Call("get_db", k, r,
                                       IF r.err = "" THEN nextObj + Made(r) ELSE 0)
                                  EXCEPT !.ref = db_ref])
           /\ nextObj' = nextObj + Made(r) + (IF r.err = "" THEN 1 ELSE 0)
    /\ UNCHANGED <<now, nticks, ttl, maxsize, wrapVars, lifeVars>>

\* Session.get_db: resolve the reference, retrieve the block through the
\* cached _get_db, wrap it in a new Database
get_db(db_ref, out) ==
    /\ CanCall
    /\ LET db_uuid == make_obj_ref(db_ref)
           k == hashkey(<<db_uuid>>, <<>>)
           r == Cached(cache, k, Retrieve("database", db_uuid, out), now, ttl, maxsize)
       IN  /\ cache' = r.cache
           /\ log' = Append(log, [Call("get_db", k, r,
                                       IF r.err = "" THEN nextObj + Made(r) ELSE 0)
                                  EXCEPT !.ref = db_ref])
           /\ nextObj' = nextObj + Made(r) + (IF r.err = "" THEN 1 ELSE 0)
    /\ UNCHANGED <<now, nticks, ttl, maxsize, wrapVars, lifeVars>>

\* Session.get_page: as get_db, through the cached _get_page
get_page(page_ref, out) ==
    /\ CanCall
    /\ LET page_uuid == make_obj_ref(page_ref)
           k == hashkey(<<page_uuid>>, <<>>)
           r == Cached(cache, k, Retrieve("page", page_uuid, out), now, ttl, maxsize)
       IN  /\ cache' = r.cache
           /\ log' = Append(log, [Call("get_page", k, r,
                                       IF r.err = "" THEN nextObj + Made(r) ELSE 0)
                                  EXCEPT !.ref = page_ref])
           /\ nextObj' = nextObj + Made(r) + (IF r.err = "" THEN 1 ELSE 0)
    /\ UNCHANGED <<now, nticks, ttl, maxsize, wrapVars, lifeVars>>

\* the cached Session._get_user; it returns the raw user
_get_user(uuid, out) ==
    /\ CanCall
    /\ LET k == hashkey(<<uuid>>, <<>>)
           r == Cached(cache, k, Retrieve("user", uuid, out), now, ttl, maxsize)
       IN  /\ cache' = r.cache
           /\ log' = Append(log, Call("_get_user", k, r, r.val.id))
           /\ nextObj' = nextObj + Made(r)
    /\ UNCHANGED <<now, nticks, ttl, maxsize, wrapVars, lifeVars>>

\* Session.get_user(user_ref): calls users.retrieve itself and wraps the
\* result in a new User.  The method has no use_cache parameter: a call
\* that passes one (use_cache is "True" or "False") is rejected by Python
\* with TypeError before the body runs.
get_user(user_ref, use_cache, out) ==
    /\ CanCall
    /\ LET user_uuid == make_obj_ref(user_ref)
           k == hashkey(<<user_uuid>>, <<>>)
           r == IF use_cache # "omitted"
                THEN [calls |-> 0, out |-> "", err |-> "TypeError", val |-> NoObj]
                ELSE Retrieve("user", user_uuid, out)
       IN  /\ log' = Append(log, [Call("get_user", k, r,
                                       IF r.err = "" THEN nextObj + 1 ELSE 0)
                                  EXCEPT !.use_cache = use_cache, !.ref = user_ref])
           /\ nextObj' = nextObj + (IF r.err = "" THEN 2 ELSE 0)
    /\ UNCHANGED <<now, nticks, cache, ttl, maxsize, wrapVars, lifeVars>>

\* remote databases and their titles, as the search endpoint knows them
Title == [i \in Ids |-> IF i = "X" THEN "a" ELSE "ab"]

\* faulty variant of search_db_unwrapped: exact is ignored, nothing is filtered
search_db_unfiltered(db_name, exact, parents, found, out) ==
    IF parents # PyNone
    THEN [calls |-> 0, out |-> "", err |-> "NotImplementedError", val |-> NoObj]
    ELSE IF TransportOut(out) # "ok"
    THEN [calls |-> 1, out |-> TransportOut(out), err |-> TransportOut(out), val |-> NoObj]
    ELSE [calls |-> 1, out |-> out, err |-> "",
          val |-> [id |-> nextObj, kind |-> "dblist", ref |-> db_name[2], items |-> found]]

\* the body of Session.search_db: parents is rejected, the query is executed,
\* exact keeps the databases whose title equals db_name
search_db_unwrapped(db_name, exact, parents, found, out) ==
    IF parents # PyNone
    THEN [calls |-> 0, out |-> "", err |-> "NotImplementedError", val |-> NoObj]
    ELSE IF TransportOut(out) # "ok"
    THEN [calls |-> 1, out |-> TransportOut(out), err |-> TransportOut(out), val |-> NoObj]
    ELSE [calls |-> 1, out |-> out, err |-> "",
          val |-> [id |-> nextObj, kind |-> "dblist", ref |-> db_name[2],
                   items |-> IF exact /\ db_name # PyNone
                             THEN {i \in found : Title[i] = db_name[2]}
                             ELSE found]]

\* the key cachetools computes for search_db(db_name, exact=..., parents=...);
\* an argument the caller omits is not part of the key
search_db_key(db_name, exact, parents) ==
    hashkey(IF db_name = "omitted" THEN <<>> ELSE <<db_name>>,
            (IF exact = "omitted" THEN <<>> ELSE <<<<"exact", <<"bool", exact>>>>>>)
            \o (IF parents = "omitted" THEN <<>> ELSE <<<<"parents", parents>>>>))

\* the public Session.search_db, which set_cache wrapped with the cache;
\* found is what the transport's query yields, out its outcome
search_db(db_name, exact, parents, found, out) ==
    /\ CanCall
    /\ LET k == search_db_key(db_name, exact, parents)
           f == search_db_unwrapped(IF db_name = "omitted" THEN PyNone ELSE db_name,
                                    exact # "False",
                                    IF parents = "omitted" THEN PyNone ELSE parents,
                                    found, out)
           r == Cached(cache, k, f, now, ttl, maxsize)
       IN  /\ cache' = r.cache
           /\ log' = Append(log, [Call("search_db", k, r, r.val.id)
                                  EXCEPT !.found = IF r.calls = 1 /\ r.out = "ok"
                                                   THEN found ELSE {}])
           /\ nextObj' = nextObj + Made(r)
    /\ UNCHANGED <<now, nticks, ttl, maxsize, wrapVars, lifeVars>>

\* Session.set_cache: one new TTLCache, shared by the four wrapped accessors
set_cache(newTtl, newMaxsize) ==
    /\ CanCall
    /\ cache' = <<>>
    /\ ttl' = newTtl
    /\ maxsize' = newMaxsize
    /\ log' = Append(log, [Call("set_cache", hashkey(<<>>, <<>>),
                                [calls |-> 0, out |-> "", err |-> "", val |-> NoObj], 0)
                           EXCEPT !.ttl = newTtl, !.maxsize = newMaxsize])
    /\ UNCHANGED <<now, nticks, nextObj, wrapVars, lifeVars>>

\* notional users.me() with transport outcome out
UsersMe(out) ==
    LET o == TransportOut(out)
    IN  [calls |-> 1, out |-> o,
         err |-> IF o \in {"ok", "None"} THEN "" ELSE o,
         val |-> IF o = "ok" THEN RawObject("user", "me") ELSE NoObj]

\* Session.whoami: the bot's user straight from the transport
whoami(out) ==
    /\ CanCall
    /\ LET r == UsersMe(out)
       IN  /\ log' = Append(log, Call("whoami", hashkey(<<>>, <<>>), r, r.val.id))
           /\ nextObj' = nextObj + (IF r.val # NoObj THEN 1 ELSE 0)
    /\ UNCHANGED <<now, nticks, cache, ttl, maxsize, wrapVars, lifeVars>>

\* faulty variant of StatusError: APIResponseError is not caught
StatusErrorUncaught(me) ==
    IF me.err = "ConnectError" THEN "SessionError"
    ELSE IF me.err # "" THEN me.err
    ELSE IF me.val = NoObj THEN "SessionError"
    ELSE ""

\* the error raise_for_status ends with ("" when it returns None) when
\* whoami ended as me says
StatusError(me) ==
    IF me.err = "ConnectError" THEN "SessionError"
    ELSE IF me.err = "APIResponseError" THEN "SessionError"
    ELSE IF me.err # "" THEN me.err
    ELSE IF me.val = NoObj THEN "SessionError"
    ELSE ""

\* faulty variant of raise_for_status: whoami is asked through the cache
raise_for_status_cached(out) ==
    /\ CanCall
    /\ LET k == hashkey(<<>>, <<>>)
           me == Cached(cache, k, UsersMe(out), now, ttl, maxsize)
           r == [calls |-> me.calls, out |-> me.out, err |-> StatusError(me), val |-> NoObj]
       IN  /\ cache' = me.cache
           /\ log' = Append(log, Call("raise_for_status", k, r, 0))
           /\ nextObj' = nextObj + me.calls
    /\ UNCHANGED <<now, nticks, ttl, maxsize, wrapVars, lifeVars>>

\* Session.raise_for_status
raise_for_status(out) ==
    /\ CanCall
    /\ LET me == UsersMe(out)
           r == [me EXCEPT !.err = StatusError(me), !.val = NoObj]
       IN  /\ log' = Append(log, Call("raise_for_status", hashkey(<<>>, <<>>), r, 0))
           /\ nextObj' = nextObj + (IF me.val # NoObj THEN 1 ELSE 0)
    /\ UNCHANGED <<now, nticks, cache, ttl, maxsize, wrapVars, lifeVars>>

\* ------------------------------------------------- construction, lifecycle
AuthArgs == {"None", "", "tokA"}       \* the auth argument of Session(...)
EnvVals == {"None", "", "tokB"}        \* os.getenv(ENV_NOTION_AUTH_TOKEN)

\* faulty variant of ResolveAuth: the environment variable takes precedence
ResolveAuthEnvFirst(auth, env) == IF env # "None" THEN env ELSE auth

\* the token Session.__init__ ends up with, "None" when there is none
ResolveAuth(auth, env) == IF auth # "None" THEN auth ELSE env

\* the state before Session(auth) runs: no transport handle, no cache
InitCtor ==
    /\ now = 0
    /\ nticks = 0
    /\ cache = <<>>
    /\ ttl = 0
    /\ maxsize = 0
    /\ nextObj = 1
    /\ log = <<>>
    /\ _obj_api_map = [k \in {} |-> ""]
    /\ wrapped = {}
    /\ wlog = <<>>
    /\ \E a \in AuthArgs, e \in EnvVals :
           ctor = [auth |-> a, env |-> e, pc |-> "new", err |-> ""]
    /\ notional = [auth |-> "None", client |-> "none"]
    /\ scope = NoScope
    /\ threads = [th \in Threads |-> Idle]

\* Session.__init__: resolve the token, build the NotionalSession, install
\* the cached accessors with the default configuration
__init__ ==
    /\ ctor.pc = "new"
    /\ LET token == ResolveAuth(ctor.auth, ctor.env)
       IN  IF token = "None"
           THEN /\ ctor' = [ctor EXCEPT !.pc = "failed", !.err = "RuntimeError"]
                /\ UNCHANGED <<notional, cache, ttl, maxsize>>
           ELSE /\ ctor' = [ctor EXCEPT !.pc = "done"]
                /\ notional' = [auth |-> token, client |-> "ready"]
                /\ cache' = <<>>
                /\ ttl' = DefaultTtl
                /\ maxsize' = DefaultMaxsize
    /\ UNCHANGED <<now, nticks, nextObj, log, wrapVars, scope, threads>>

\* a lifecycle call: it issues no request and returns nothing
Lifecycle(op) ==
    Call(op, hashkey(<<>>, <<>>), [calls |-> 0, out |-> "", err |-> "", val |-> NoObj], 0)

\* Session.__enter__: the client acquires its connection
__enter__ ==
    /\ CanCall
    /\ scope.pc = "out"
    /\ notional.client = "ready"
    /\ notional' = [notional EXCEPT !.client = "open"]
    /\ scope' = [scope EXCEPT !.pc = "body"]
    /\ log' = Append(log, Lifecycle("__enter__"))
    /\ UNCHANGED <<now, nticks, cache, ttl, maxsize, nextObj, wrapVars, ctor, threads>>

\* faulty variant of __exit__: the client is released only when the body
\* completed normally
exit_on_success(exc) ==
    /\ CanCall
    /\ scope.pc = "body"
    /\ notional' = [notional EXCEPT !.client = IF exc = "" THEN "closed" ELSE @]
    /\ scope' = [pc |-> "exited", exc |-> exc, raised |-> exc]
    /\ log' = Append(log, Lifecycle("__exit__"))
    /\ UNCHANGED <<now, nticks, cache, ttl, maxsize, nextObj, wrapVars, ctor, threads>>

\* Session.__exit__, called when the body of the with block ended with the
\* exception exc ("" when it completed): the client is released; the method
\* returns None, so the exception goes on to the caller
__exit__(exc) ==
    /\ CanCall
    /\ scope.pc = "body"
    /\ notional' = [notional EXCEPT !.client = "closed"]
    /\ scope' = [pc |-> "exited", exc |-> exc, raised |-> exc]
    /\ log' = Append(log, Lifecycle("__exit__"))
    /\ UNCHANGED <<now, nticks, cache, ttl, maxsize, nextObj, wrapVars, ctor, threads>>

\* Session.close: the client is closed; the cached accessors stay as they are
close ==
    /\ CanCall
    /\ notional' = [notional EXCEPT !.client = "closed"]
    /\ log' = Append(log, Lifecycle("close"))
    /\ UNCHANGED <<now, nticks, cache, ttl, maxsize, nextObj, wrapVars, ctor, scope, threads>>

\* ------------------------------------- the cached wrapper, step by step
\* cachetools.cached is given no lock, so the steps of one call (look the
\* link up, read the value, call the wrapped function, store the value) of
\* one thread interleave with the steps of another.  Each step is taken as
\* atomic here, which leaves out the interleavings inside one step.
InFlight == {th \in Threads : threads[th].pc # "idle"}
CanStart == ctor.pc = "done" /\ Len(log) + Cardinality(InFlight) <= MaxCalls

\* thread th calls get_db(uuid): TTLCache.__getitem__ finds the link of the
\* key (making it the most recently used) and compares its expiry time
cached_getlink(th, uuid) ==
    /\ CanStart
    /\ threads[th].pc = "idle"
    /\ LET k == hashkey(<<uuid>>, <<>>)
           h == Hit(cache, k, now)
       IN  /\ cache' = Touch(cache, k)
           /\ threads' = [threads EXCEPT ![th] =
                  [pc |-> IF h THEN "data" ELSE "call", op |-> "get_db", key |-> k,
                   val |-> NoObj, hit |-> h]]
    /\ UNCHANGED <<now, nticks, ttl, maxsize, nextObj, log, wrapVars, ctor, notional, scope>>

\* Cache.__getitem__ reads the value; a key that is gone by now raises
\* KeyError, which cached() takes for a miss
cached_getitem(th) ==
    /\ threads[th].pc = "data"
    /\ LET k == threads[th].key
           i == KeyIndex(cache, k)
       IN  IF i # 0
           THEN /\ log' = Append(log, Call("get_db", k,
                              [calls |-> 0, out |-> "", err |-> "", val |-> cache[i].val],
                              nextObj))
                /\ nextObj' = nextObj + 1
                /\ threads' = [threads EXCEPT ![th] = Idle]
           ELSE /\ threads' = [threads EXCEPT ![th].pc = "call"]
                /\ UNCHANGED <<log, nextObj>>
    /\ UNCHANGED <<now, nticks, cache, ttl, maxsize, wrapVars, ctor, notional, scope>>

\* the wrapped _get_db: databases.retrieve(uuid) with transport outcome out
cached_call(th, out) ==
    /\ threads[th].pc = "call"
    /\ LET k == threads[th].key
           r == Retrieve("database", k.args[1], out)
       IN  /\ nextObj' = nextObj + 1
           /\ IF r.err # ""
              THEN /\ log' = Append(log, Call("get_db", k, r, 0))
                   /\ threads' = [threads EXCEPT ![th] = Idle]
              ELSE /\ threads' = [threads EXCEPT ![th].pc = "store", ![th].val = r.val]
                   /\ UNCHANGED log
    /\ UNCHANGED <<now, nticks, cache, ttl, maxsize, wrapVars, ctor, notional, scope>>

\* TTLCache.__setitem__ stores the value; get_db wraps it in a Database
cached_setitem(th) ==
    /\ threads[th].pc = "store"
    /\ LET k == threads[th].key
           v == threads[th].val
       IN  /\ cache' = CacheSet(cache, k, v, now, ttl, maxsize)
           /\ log' = Append(log, Call("get_db", k,
                         [calls |-> 1, out |-> "ok", err |-> "", val |-> v], nextObj))
           /\ nextObj' = nextObj + 1
           /\ threads' = [threads EXCEPT ![th] = Idle]
    /\ UNCHANGED <<now, nticks, ttl, maxsize, wrapVars, ctor, notional, scope>>

\* ------------------------------------------------------ utils.Wrapper
NoWrapper == [id |-> 0, cls |-> "", obj_ref |-> 0]

\* Python's exception hierarchy below LookupError
LookupErrors == {"LookupError", "KeyError", "IndexError"}

\* the Wrapper subclasses defined so far; a class statement runs once
Defined == {wlog[i].cls : i \in {n \in 1..Len(wlog) : wlog[n].op = "register"}}

\* faulty variant of SetItem: an existing association is kept (setdefault)
SetDefault(map, k, v) == [x \in DOMAIN map \cup {k} |-> IF x \in DOMAIN map THEN map[x] ELSE v]

\* cls._obj_api_map[wraps] = cls
SetItem(map, k, v) == [x \in DOMAIN map \cup {k} |-> IF x = k THEN v ELSE map[x]]

\* Wrapper.__init_subclass__, run when `class cls(Wrapper, wraps=wraps)` is defined
register(cls, wraps) ==
    /\ Len(wlog) < MaxWrapOps
    /\ cls \notin Defined
    /\ _obj_api_map' = SetItem(_obj_api_map, wraps, cls)
    /\ wlog' = Append(wlog, [op |-> "register", cls |-> cls,
                             raw |-> [id |-> 0, kind |-> wraps], err |-> "",
                             ret |-> NoWrapper])
    /\ UNCHANGED <<wrapped, sessionVars, lifeVars>>

\* faulty variant of WrapResult: the wrapper holds a copy of obj_ref
WrapResultCopy(map, obj_ref, newId) ==
    IF obj_ref.kind \notin DOMAIN map
    THEN [err |-> "KeyError", ret |-> NoWrapper]
    ELSE [err |-> "", ret |-> [id |-> newId, cls |-> map[obj_ref.kind],
                                obj_ref |-> obj_ref.id + Cardinality(RawIds)]]

\* faulty variant of WrapResult: an unregistered kind is wrapped in the
\* Wrapper base class (dict.get with a default)
WrapResultDefault(map, obj_ref, newId) ==
    [err |-> "",
     ret |-> [id |-> newId,
              cls |-> IF obj_ref.kind \in DOMAIN map THEN map[obj_ref.kind] ELSE "Wrapper",
              obj_ref |-> obj_ref.id]]

\* what Wrapper.wrap_obj_ref does with obj_ref under the registry map: the
\* error it raises, or the new instance of the registered class holding obj_ref
WrapResult(map, obj_ref, newId) ==
    IF obj_ref.kind \notin DOMAIN map
    THEN [err |-> "KeyError", ret |-> NoWrapper]
    ELSE [err |-> "", ret |-> [id |-> newId, cls |-> map[obj_ref.kind],
                                obj_ref |-> obj_ref.id]]

\* Wrapper.wrap_obj_ref
wrap_obj_ref(obj_ref) ==
    /\ Len(wlog) < MaxWrapOps
    /\ LET r == WrapResult(_obj_api_map, obj_ref, nextObj)
       IN  /\ wlog' = Append(wlog, [op |-> "wrap_obj_ref", cls |-> "", raw |-> obj_ref,
                                    err |-> r.err, ret |-> r.ret])
           /\ wrapped' = IF r.err = "" THEN wrapped \cup {r.ret} ELSE wrapped
           /\ nextObj' = IF r.err = "" THEN nextObj + 1 ELSE nextObj
    /\ UNCHANGED <<_obj_api_map, now, nticks, cache, ttl, maxsize, log, lifeVars>>

\* ------------------------------------------------------- specifications
Refs == {<<f, i>> : f \in {"str", "uuid"}, i \in Ids}
UuidRefs == {<<"uuid", i>> : i \in Ids}
Few == Len(log) < MaxCalls

\* the cached accessors, the cache configuration and the clock
Next ==
    \/ \E d \in TickSteps : Tick(d)
    \/ \E ref \in UuidRefs : Few /\ get_db(ref, "ok")
    \/ \E ref \in UuidRefs : Few /\ get_page(ref, "ok")
    \/ Few /\ _get_user(PyUuid("X"), "ok")
    \/ Few /\ search_db(PyStr("a"), "omitted", "omitted", {"X", "Y"}, "ok")
    \/ \E t \in TtlChoices, m \in SizeChoices : Few /\ set_cache(t, m)

Spec == Init /\ [][Next]_vars

\* the user accessors
NextUser ==
    \/ \E d \in TickSteps : Tick(d)
    \/ \E ref \in Refs, u \in {"omitted", "False"}, out \in RetrieveOutcomes :
          Few /\ get_user(ref, u, out)
    \/ \E i \in Ids : Few /\ _get_user(PyUuid(i), "ok")

SpecUser == Init /\ [][NextUser]_vars

\* the status check
NextStatus ==
    \/ \E out \in MeOutcomes : Few /\ whoami(out)
    \/ \E out \in MeOutcomes : Few /\ raise_for_status(out)
    \/ Few /\ get_db(<<"uuid", "X">>, "ok")

SpecStatus == Init /\ [][NextStatus]_vars

\* the wrap registry
NextWrap ==
    \/ \E cls \in WrapperKinds, wraps \in RawKinds \ {"objs.User"} : register(cls, wraps)
    \/ \E i \in RawIds, k \in RawKinds : wrap_obj_ref([id |-> i, kind |-> k])

SpecWrap == Init /\ [][NextWrap]_vars

\* retrievals against a transport that may fail
NextFail ==
    \/ \E d \in TickSteps : Tick(d)
    \/ \E ref \in UuidRefs, out \in RetrieveOutcomes : Few /\ get_db(ref, out)
    \/ \E out \in RetrieveOutcomes : Few /\ get_page(<<"uuid", "X">>, out)
    \/ \E out \in RetrieveOutcomes : Few /\ get_user(<<"uuid", "X">>, "omitted", out)

SpecFail == Init /\ [][NextFail]_vars

BodyErrors == {"", "ValueError", "APIResponseError"}

\* the session used as a context manager, and closed
NextScope ==
    \/ Few /\ __enter__
    \/ \E exc \in BodyErrors : Few /\ __exit__(exc)
    \/ Few /\ close
    \/ \E ref \in UuidRefs, out \in RetrieveOutcomes : Few /\ get_db(ref, out)
    \/ \E out \in RetrieveOutcomes : Few /\ get_user(<<"uuid", "X">>, "omitted", out)
    \/ Tick(DefaultTtl)

SpecScope == Init /\ [][NextScope]_vars

\* construction followed by use
NextCtor ==
    \/ __init__
    \/ \E ref \in UuidRefs, out \in RetrieveOutcomes : Few /\ get_db(ref, out)
    \/ Few /\ close

SpecCtor == InitCtor /\ [][NextCtor]_vars

\* references in both forms
NextRef ==
    \/ \E d \in TickSteps : Tick(d)
    \/ \E ref \in Refs : Few /\ get_db(ref, "ok")
    \/ \E f \in {"str", "uuid"} : Few /\ get_page(<<f, "X">>, "ok")

SpecRef == Init /\ [][NextRef]_vars

EvictIds == {"X", "Y", "Z"}
EvictSizes == {2}

\* a cache of two entries, three identifiers and two accessors
NextEvict ==
    \/ Tick(1)
    \/ \E t \in TtlChoices, m \in EvictSizes : set_cache(t, m)
    \/ \E i \in EvictIds \ {"Z"} : get_db(PyUuid(i), "ok")
    \/ get_page(PyUuid("Z"), "ok")

SpecEvict == Init /\ [][NextEvict]_vars

\* threads sharing the session; the cache is configured before they start
NextThreads ==
    \/ Tick(1)
    \/ \E t \in TtlChoices, m \in SizeChoices :
          Len(log) = 0 /\ InFlight = {} /\ set_cache(t, m)
    \/ \E th \in Threads, i \in Ids : cached_getlink(th, PyUuid(i))
    \/ \E th \in Threads : cached_getitem(th)
    \/ \E th \in Threads, out \in RetrieveOutcomes : cached_call(th, out)
    \/ \E th \in Threads : cached_setitem(th)

SpecThreads == Init /\ [][NextThreads]_vars

\* every way of calling search_db
NextSearch ==
    \/ Few /\ get_db(<<"uuid", "X">>, "ok")
    \/ \E n \in {"omitted", PyStr("a")}, e \in {"omitted", "True", "False"},
          p \in {"omitted", <<"list", "p">>, <<"tuple", "p">>},
          found \in SUBSET Ids, out \in RetrieveOutcomes :
          Len(log) < MaxSearchCalls /\ search_db(n, e, p, found, out)

SpecSearch == Init /\ [][NextSearch]_vars
\* ================================================================ claims
Last(q) == q[Len(q)]
CallIdx == 1..Len(log)
NoSetCacheBetween(i, j) == \A m \in (i + 1)..(j - 1) : log[m].op # "set_cache"

\* two get_db calls for the same id under the default configuration, the
\* first of which fetched the block, the second made before ttl elapsed
TwiceInTtl(i, j) ==
    /\ i < j
    /\ log[i].op = "get_db" /\ log[j].op = "get_db"
    /\ log[i].key = log[j].key
    /\ log[i].calls = 1 /\ log[i].err = ""
    /\ log[i].ttl = DefaultTtl /\ log[i].maxsize = DefaultMaxsize
    /\ NoSetCacheBetween(i, j)
    /\ log[j].t < log[i].t + DefaultTtl

\* C1 as stated: the second get_db(X) within the time-to-live issues no
\* transport call and returns the identical object the first call returned
C1_Original ==
    \A i, j \in CallIdx :
        TwiceInTtl(i, j) =>
            /\ log[j].calls = 0
            /\ log[j].err = ""
            /\ log[j].ret = log[i].ret

\* C1 amended: the second get_db(X) within the time-to-live issues no
\* transport call and returns a new Database that holds the identical raw
\* block the first call fetched
C1_SameBlock ==
    \A i, j \in CallIdx :
        TwiceInTtl(i, j) =>
            /\ log[j].calls = 0
            /\ log[j].err = ""
            /\ log[j].raw.id = log[i].raw.id
            /\ log[j].ret # log[i].ret

C1_Witness ==
    \E i, j \in CallIdx :
        /\ TwiceInTtl(i, j)
        /\ log[j].t = log[i].t + 29
        /\ log[j].raw.id = log[i].raw.id

\* C2: two sequential get_user(id) calls within the time-to-live issue
\* exactly one users.retrieve call in total
C2_OneTransportCall ==
    \A i, j \in CallIdx :
        ( /\ j = i + 1
          /\ log[i].op = "get_user" /\ log[j].op = "get_user"
          /\ log[i].use_cache = "omitted" /\ log[j].use_cache = "omitted"
          /\ log[i].key = log[j].key
          /\ log[i].err = ""
          /\ log[j].t < log[i].t + log[i].ttl )
        => log[i].calls + log[j].calls = 1

\* C3: get_user(id, use_cache=False) is accepted, issues a transport call
\* whatever the cache holds, and leaves the fetched value cached for id
C3_BypassRefreshes ==
    \A j \in CallIdx :
        (log[j].op = "get_user" /\ log[j].use_cache = "False") =>
            /\ log[j].err # "TypeError"
            /\ log[j].calls = 1
            /\ (j = Len(log) /\ log[j].err = "") =>
                   \E n \in 1..Len(cache) :
                       cache[n].key = log[j].key /\ cache[n].val.id = log[j].raw.id

CachedOps == {"search_db", "get_db", "get_page", "_get_user"}

\* call i fetched, for the key of call j, at least a time-to-live before j
FetchedBefore(i, j) ==
    /\ i < j
    /\ log[i].op \in CachedOps
    /\ log[i].key = log[j].key
    /\ log[i].calls = 1 /\ log[i].err = ""

\* C4: a cached call answered without a transport call returns an object
\* fetched less than ttl ago, and a call whose key was last fetched ttl or
\* more ago issues a transport call and returns a newly fetched object
C4_NoStaleEntry ==
    \A j \in CallIdx :
        log[j].op \in CachedOps =>
            /\ (log[j].calls = 0 /\ log[j].err = "") =>
                   \E i \in CallIdx :
                       /\ FetchedBefore(i, j)
                       /\ log[i].raw.id = log[j].raw.id
                       /\ log[j].t < log[i].t + log[j].ttl
            /\ ( /\ \E i \in CallIdx : FetchedBefore(i, j)
                 /\ \A i \in CallIdx :
                        FetchedBefore(i, j) => log[j].t >= log[i].t + log[j].ttl )
               => /\ log[j].calls = 1
                  /\ log[j].err = "" =>
                         \A i \in 1..(j - 1) : log[i].raw.id # log[j].raw.id

C4_Witness ==
    \E i, j \in CallIdx :
        /\ FetchedBefore(i, j)
        /\ log[j].op \in {"get_db", "get_page", "search_db"}
        /\ log[j].ttl = DefaultTtl
        /\ log[j].t = log[i].t + DefaultTtl
        /\ log[j].calls = 1 /\ log[j].err = ""
        /\ log[j].raw.id # log[i].raw.id

HasParents(k) == \E n \in 1..Len(k.kwargs) : k.kwargs[n][1] = "parents"

\* C5: search_db called with parents supplied fails with
\* NotImplementedError, whatever db_name and exact are
C5_ParentsNotImplemented ==
    \A j \in CallIdx :
        (log[j].op = "search_db" /\ HasParents(log[j].key)) =>
            log[j].err = "NotImplementedError"

RegIdx == {n \in 1..Len(wlog) : wlog[n].op = "register"}
\* rawKind was registered to another wrapper kind before registration j
Duplicate(j) ==
    \E i \in RegIdx : i < j /\ wlog[i].raw.kind = wlog[j].raw.kind /\ wlog[i].cls # wlog[j].cls
FirstFor(kind) == wlog[CHOOSE i \in RegIdx : wlog[i].raw.kind = kind /\
                        \A m \in RegIdx : wlog[m].raw.kind = kind => i <= m].cls
LastFor(kind) == wlog[CHOOSE i \in RegIdx : wlog[i].raw.kind = kind /\
                        \A m \in RegIdx : wlog[m].raw.kind = kind => m <= i].cls

WrapStep == Len(wlog') = Len(wlog) + 1 /\ Last(wlog').op = "wrap_obj_ref"

\* C7: wrap_obj_ref of a raw object whose kind R is registered to W returns
\* an instance of W holding that very object, and leaves the registry as it was
C7_WrapRegistered ==
    [][(WrapStep /\ Last(wlog').raw.kind \in DOMAIN _obj_api_map) =>
          LET e == Last(wlog')
          IN  /\ e.err = ""
              /\ e.ret.cls = _obj_api_map[e.raw.kind]
              /\ e.ret.obj_ref = e.raw.id
              /\ e.ret \in wrapped' /\ e.ret \notin wrapped
              /\ _obj_api_map' = _obj_api_map]_vars

C7_Witness ==
    /\ Len(wlog) > 2
    /\ Last(wlog).op = "wrap_obj_ref"
    /\ Last(wlog).err = ""
    /\ Last(wlog).ret.obj_ref = Last(wlog).raw.id
    /\ Last(wlog).ret.cls = LastFor(Last(wlog).raw.kind)
    /\ LastFor(Last(wlog).raw.kind) # FirstFor(Last(wlog).raw.kind)

\* C8: wrap_obj_ref of a raw object whose kind is not registered fails with
\* a LookupError (KeyError) and creates no wrapper instance
C8_WrapUnregistered ==
    [][(WrapStep /\ Last(wlog').raw.kind \notin DOMAIN _obj_api_map) =>
          /\ Last(wlog').err \in LookupErrors
          /\ Last(wlog').ret = NoWrapper
          /\ wrapped' = wrapped
          /\ nextObj' = nextObj
          /\ _obj_api_map' = _obj_api_map]_vars

C8_Witness ==
    /\ Len(wlog) > 1
    /\ Last(wlog).op = "wrap_obj_ref"
    /\ Last(wlog).err = "KeyError"
    /\ DOMAIN _obj_api_map # {}
    /\ Last(wlog).raw.kind \notin DOMAIN _obj_api_map

\* call j is the first call of its accessor with its key since set_cache call s
FirstSince(s, j) ==
    /\ s < j
    /\ log[s].op = "set_cache"
    /\ log[j].op \in CachedOps
    /\ \A m \in (s + 1)..(j - 1) : ~(log[m].op = log[j].op /\ log[m].key = log[j].key)

\* C9: after set_cache the first call of each accessor with any key issues
\* a transport call, and nothing stored before set_cache is returned after it
C9_FreshCaches ==
    \A s, j \in CallIdx :
        /\ FirstSince(s, j) => log[j].calls = 1
        /\ (s < j /\ log[s].op = "set_cache" /\ log[j].op \in CachedOps /\ log[j].err = "") =>
               \A i \in 1..(s - 1) : log[i].raw.id # log[j].raw.id

\* C10: raise_for_status returns None when users.me succeeds and raises
\* SessionError when it fails with ConnectError or APIResponseError
C10_StatusNormalized ==
    \A j \in CallIdx :
        log[j].op = "raise_for_status" =>
            /\ log[j].calls = 1
            /\ log[j].out = "ok" => (log[j].err = "" /\ log[j].ret = 0 /\ log[j].raw = NoObj)
            /\ log[j].out \in {"ConnectError", "APIResponseError"} =>
                   log[j].err = "SessionError"

C10_Witness ==
    \E i, j \in CallIdx :
        /\ log[i].op = "raise_for_status" /\ log[i].out = "APIResponseError"
        /\ log[i].err = "SessionError"
        /\ log[j].op = "raise_for_status" /\ log[j].out = "ok" /\ log[j].err = ""

\* the exact argument of a search_db call, "omitted" when none was passed
ExactArg(k) ==
    IF \E n \in 1..Len(k.kwargs) : k.kwargs[n][1] = "exact"
    THEN (k.kwargs[CHOOSE n \in 1..Len(k.kwargs) : k.kwargs[n][1] = "exact"])[2][2]
    ELSE "omitted"

\* call j is a search_db(name, ...) whose query the transport answered
Searched(j) ==
    /\ log[j].op = "search_db"
    /\ log[j].calls = 1 /\ log[j].err = ""
    /\ Len(log[j].key.args) = 1

SameTitle(j) == {i \in log[j].found : Title[i] = log[j].key.args[1][2]}

\* C11 as stated: exact=True keeps exactly the databases titled name;
\* exact=False and an omitted exact return the query's matches unfiltered
C11_Original ==
    \A j \in CallIdx :
        Searched(j) =>
            /\ ExactArg(log[j].key) = "True" => log[j].raw.items = SameTitle(j)
            /\ ExactArg(log[j].key) \in {"False", "omitted"} =>
                   log[j].raw.items = log[j].found

\* C11 amended: exact=True and an omitted exact (the default is True) keep
\* exactly the databases titled name; exact=False returns the matches unfiltered
C11_ExactDefaultsTrue ==
    \A j \in CallIdx :
        Searched(j) =>
            /\ ExactArg(log[j].key) \in {"True", "omitted"} =>
                   log[j].raw.items = SameTitle(j)
            /\ ExactArg(log[j].key) = "False" => log[j].raw.items = log[j].found

C11_Witness ==
    \E j \in CallIdx :
        /\ Searched(j)
        /\ ExactArg(log[j].key) = "omitted"
        /\ log[j].found = {"X", "Y"}
        /\ log[j].raw.items = {"X"}

\* call j is a retrieval whose transport call failed
FailedRetrieval(j) ==
    /\ log[j].op \in {"get_db", "get_page", "get_user"}
    /\ log[j].out \notin {"", "ok"}

\* C12: a retrieval whose transport call fails raises the transport's error
\* after that single call; no failure is stored in the cache, after a failed
\* get_db or get_page the cache has no entry for the key, and the next call
\* with the same id issues a transport call again
C12_FailureNotCached ==
    \A j \in CallIdx :
        FailedRetrieval(j) =>
            /\ log[j].err = log[j].out
            /\ log[j].calls = 1
            /\ log[j].raw = NoObj /\ log[j].ret = 0
            /\ \A n \in 1..Len(cache) : cache[n].val # NoObj
            /\ (j = Len(log) /\ log[j].op \in {"get_db", "get_page"}) =>
                   KeyIndex(Expire(cache, log[j].t), log[j].key) = 0
            /\ (j < Len(log) /\ log[j + 1].op = log[j].op /\ log[j + 1].key = log[j].key) =>
                   log[j + 1].calls = 1

C12_Witness ==
    \E j \in CallIdx :
        /\ FailedRetrieval(j)
        /\ log[j].op = "get_db"
        /\ \E i \in 1..(j - 1) : log[i].op = "get_db" /\ log[i].key = log[j].key /\ log[i].err = ""
        /\ j < Len(log) /\ log[j + 1].op = "get_db" /\ log[j + 1].key = log[j].key
        /\ log[j + 1].calls = 1 /\ log[j + 1].err = ""

\* C13: while the body of `with session:` runs the client holds its
\* connection; once the block is left the client is released, whether the
\* body completed or raised, and an exception of the body reached the caller
C13_ScopeReleases ==
    /\ scope.pc = "body" => notional.client \in {"open", "closed"}
    /\ scope.pc = "exited" =>
           /\ notional.client = "closed"
           /\ scope.raised = scope.exc

C13_Witness ==
    /\ scope.pc = "exited"
    /\ scope.exc = "ValueError"
    /\ scope.raised = "ValueError"
    /\ notional.client = "closed"
    /\ \E j \in CallIdx : log[j].op = "get_db" /\ log[j].err = ""

\* C14: a constructed session holds the auth argument when one was passed,
\* else the value of NOTION_AUTH_TOKEN; with neither, construction fails with
\* RuntimeError and there is no transport handle, no cache and no call
C14_AuthResolution ==
    /\ ctor.pc = "done" =>
           /\ ctor.auth # "None" => notional.auth = ctor.auth
           /\ ctor.auth = "None" => (ctor.env # "None" /\ notional.auth = ctor.env)
           /\ notional.client # "none"
           /\ ttl = DefaultTtl /\ maxsize = DefaultMaxsize
    /\ ctor.pc = "failed" =>
           /\ ctor.auth = "None" /\ ctor.env = "None"
           /\ ctor.err = "RuntimeError"
           /\ notional = [auth |-> "None", client |-> "none"]
           /\ ttl = 0 /\ maxsize = 0 /\ cache = <<>>
           /\ log = <<>>

C14_Witness ==
    /\ ctor.pc = "done"
    /\ ctor.auth = "tokA" /\ ctor.env = "tokB"
    /\ notional.auth = "tokA"
    /\ Len(log) > 0
\* the kind of raw object an accessor is meant to return
KindOf(op) ==
    IF op = "get_db" THEN "database"
    ELSE IF op = "get_page" THEN "page"
    ELSE IF op = "search_db" THEN "dblist"
    ELSE "user"

\* C15: a cached accessor that returns gives back an object of its own kind,
\* and one answered from the cache gives back what an earlier call of the
\* same accessor with the same key stored
C15_KeysIncludeOperation ==
    \A j \in CallIdx :
        (log[j].op \in CachedOps /\ log[j].err = "") =>
            /\ log[j].raw.kind = KindOf(log[j].op)
            /\ log[j].calls = 0 =>
                   \E i \in 1..(j - 1) : /\ log[i].op = log[j].op
                                         /\ log[i].key = log[j].key
                                         /\ log[i].raw = log[j].raw

\* calls that end the use of the session, and calls that retrieve
ClosingOps == {"close", "__exit__"}
RetrievalOps == {"get_db", "get_page", "get_user", "_get_user", "search_db", "whoami"}

\* C18: after close() or the exit of the scope no retrieval returns a result
C18_NoUseAfterClose ==
    \A i \in CallIdx : \A j \in CallIdx :
        (i < j /\ log[i].op \in ClosingOps /\ log[j].op \in RetrievalOps) =>
            log[j].err # ""

\* two calls of one accessor for the same identifier, the first of which
\* fetched the object, the second made before the time-to-live elapsed
SameIdInTtl(i, j) ==
    /\ i < j
    /\ log[i].op \in {"get_db", "get_page"}
    /\ log[j].op = log[i].op
    /\ log[i].ref[2] = log[j].ref[2]
    /\ log[i].calls = 1 /\ log[i].err = ""
    /\ log[j].t < log[i].t + log[i].ttl

C20_StatusNeverCached ==
    \A j \in CallIdx :
        log[j].op = "raise_for_status" =>
            /\ log[j].calls = 1
            /\ log[j].err = "" <=> log[j].out = "ok"

C20_Witness ==
    /\ Len(cache) > 0
    /\ \E i \in CallIdx : \E j \in CallIdx :
        /\ i < j
        /\ log[i].op = "raise_for_status" /\ log[i].err = ""
        /\ log[j].op = "raise_for_status" /\ log[j].out = "ConnectError"
        /\ log[j].err = "SessionError"
\* the last cached call made with key k
LastUse(k) ==
    LET U == {j \in CallIdx : log[j].op \in CachedOps /\ log[j].key = k}
    IN  IF U = {} THEN 0 ELSE CHOOSE j \in U : \A m \in U : m <= j

CacheKeys(c) == {c[n].key : n \in 1..Len(c)}

\* a step in which a cached call fetched an object and stored it: no expired
\* entry is left, at most one unexpired entry is given up, and only when the
\* cache was full of unexpired entries, and it is the one used longest ago
EvictionOk ==
    (/\ Len(log') = Len(log) + 1
     /\ Last(log').op \in CachedOps
     /\ Last(log').calls = 1 /\ Last(log').err = "") =>
        LET k == Last(log').key
            live == {n \in 1..Len(cache) : now < cache[n].expires /\ cache[n].key # k}
            given == {n \in live : cache[n].key \notin CacheKeys(cache')}
        IN  /\ k \in CacheKeys(cache')
            /\ \A m \in 1..Len(cache') : now < cache'[m].expires
            /\ Cardinality(given) <= 1
            /\ \A n \in given :
                   /\ Cardinality(live) = maxsize
                   /\ \A m \in live \ {n} : LastUse(cache[n].key) < LastUse(cache[m].key)
            /\ given = {} => \A n \in live : cache[n].key \in CacheKeys(cache')

\* C16: the cache never holds more than maxsize entries, and an insertion
\* into a full cache gives up expired entries first and otherwise the least
\* recently used one
C16_BoundedLruEviction ==
    /\ [](Len(cache) <= maxsize /\ Cardinality(CacheKeys(cache)) = Len(cache))
    /\ [][EvictionOk]_vars

\* X and Y stored, X looked up again, then Z stored while both are unexpired:
\* Y, the least recently used, is given up
C16_Witness ==
    /\ Len(log) = 5
    /\ maxsize = 2 /\ Len(cache) = 2
    /\ log[1].op = "set_cache"
    /\ log[2].calls = 1 /\ log[3].calls = 1 /\ log[4].calls = 0 /\ log[5].calls = 1
    /\ log[4].key = log[2].key
    /\ log[5].t < log[2].t + ttl
    /\ CacheKeys(cache) = {log[2].key, log[5].key}

\* C17: a call that found its key cached and unexpired goes on to read the
\* value and never to the transport
C17_CachedKeyNoRoundTrip ==
    \A th \in Threads : threads[th].hit => threads[th].pc = "data"
====
